---- MODULE Spec2Model ----
(***************************************************************************)
(* Model of automl/utils/pretty_logging.py: the ANSI colour codec           *)
(* (colorstr, remove_colorstr), the emoji codec (remove_emoji, _emojis),    *)
(* PrettyFormatter.format and set_logging.                                  *)
(*                                                                         *)
(* A Python str is modelled as a sequence of Unicode code points, so the    *)
(* character classes of the regular expressions are the real ranges.        *)
(***************************************************************************)
EXTENDS Integers, Sequences, FiniteSets, TLC

VARIABLES
    text,       \* codec: the string the caller passes in
    styles,     \* codec: the style names passed to colorstr
    enc,        \* the state of sys.stdout's encoding seen by _emojis
    out,        \* codec / formatter: the value returned last
    prev,       \* codec: the value the last operation was applied to
    ops,        \* codec: the operations applied so far, in order
    rec,        \* formatter: the LogRecord being formatted
    cfg,        \* formatter: the PrettyFormatter flags of the last format call
    raised,     \* formatter: TRUE when the last format call raised
    loggers,    \* registry: logger name -> its level, propagate, handlers
    sysStdout,  \* registry: the object sys.stdout is bound to
    env,        \* registry: NO_COLOR / NO_EMOJI / NO_TIME read at import
    calls,      \* registry: what the set_logging calls made so far asked for
    pc,         \* registry: thread -> position inside set_logging
    frame       \* registry: thread -> locals of its running set_logging call

codecVars == <<text, styles, out, prev, ops>>
fmtVars == <<rec, cfg, raised>>
regVars == <<loggers, sysStdout, env, calls, pc, frame>>
vars == <<text, styles, enc, out, prev, ops, rec, cfg, raised,
          loggers, sysStdout, env, calls, pc, frame>>

-----------------------------------------------------------------------------
(* Code points used by the source's literals and regular expressions. *)

ESC == 27
LBRACKET == 91
NEWLINE == 10
SPACE == 32
HYPHEN == 45
COLON == 58
SEMICOLON == 59
QUESTION == 63
DIGIT0 == 48
DIGIT9 == 57
UPPER_A == 65
UPPER_Z == 90
LOWER_A == 97
LOWER_Z == 122
LOWER_M == 109

\* The six severity glyphs of LEVEL_STYLE and _emojis.
GLYPH_DEBUG == 128027
GLYPH_INFO == 128216
GLYPH_SUCCESS == 127881
GLYPH_WARNING == 128679
GLYPH_ERROR == 128030
GLYPH_CRITICAL == 128128
\* U+2705, the check mark of remove_emoji's docstring: in the emoji ranges,
\* but not one of the six glyphs _emojis knows.
GLYPH_CHECK == 9989

L_DEBUG == <<68, 69, 66, 85, 71>>
L_INFO == <<73, 78, 70, 79>>
L_SUCCESS == <<83, 85, 67, 67, 69, 83, 83>>
L_WARNING == <<87, 65, 82, 78, 73, 78, 71>>
L_ERROR == <<69, 82, 82, 79, 82>>
L_CRITICAL == <<67, 82, 73, 84, 73, 67, 65, 76>>

-----------------------------------------------------------------------------
(* colorstr *)

\* "\033[<n>m" for a one- or two-digit n.
Sgr(n) ==
    <<ESC, LBRACKET>>
        \o (IF n >= 10 THEN <<DIGIT0 + (n \div 10)>> ELSE <<>>)
        \o <<DIGIT0 + (n % 10), LOWER_M>>

colors ==
    [black |-> Sgr(30), red |-> Sgr(31), green |-> Sgr(32), yellow |-> Sgr(33),
     blue |-> Sgr(34), magenta |-> Sgr(35), cyan |-> Sgr(36), white |-> Sgr(37),
     bright_black |-> Sgr(90), bright_red |-> Sgr(91), bright_green |-> Sgr(92),
     bright_yellow |-> Sgr(93), bright_blue |-> Sgr(94),
     bright_magenta |-> Sgr(95), bright_cyan |-> Sgr(96),
     bright_white |-> Sgr(97),
     end |-> Sgr(0), bold |-> Sgr(1), underline |-> Sgr(4)]

RECURSIVE JoinCodes(_)
JoinCodes(args) ==
    IF args = <<>> THEN <<>> ELSE colors[Head(args)] \o JoinCodes(Tail(args))

\* colorstr(*args, string); with no style argument 'blue' and 'bold' apply.
colorstr(args, string) ==
    JoinCodes(IF args = <<>> THEN <<"blue", "bold">> ELSE args)
        \o string \o colors["end"]

-----------------------------------------------------------------------------
(* remove_colorstr: re.sub of \x1B\[[0-9;]*[A-Za-z] by "" *)

IsAnsiParam(c) == (c >= DIGIT0 /\ c <= DIGIT9) \/ c = SEMICOLON

IsAsciiLetter(c) == (c >= UPPER_A /\ c <= UPPER_Z) \/ (c >= LOWER_A /\ c <= LOWER_Z)

\* The first position at or after j that holds no [0-9;] (Len(s) + 1 if none).
RECURSIVE AnsiParamEnd(_, _)
AnsiParamEnd(s, j) ==
    IF j <= Len(s) /\ IsAnsiParam(s[j]) THEN AnsiParamEnd(s, j + 1) ELSE j

\* The position of the final letter of the match starting at i, 0 if the
\* pattern does not match at i.  [0-9;]* is greedy; the letter that must
\* follow is outside [0-9;], so backtracking never finds another match.
AnsiMatchEnd(s, i) ==
    IF i + 1 <= Len(s) /\ s[i] = ESC /\ s[i + 1] = LBRACKET
    THEN LET j == AnsiParamEnd(s, i + 2)
         IN  IF j <= Len(s) /\ IsAsciiLetter(s[j]) THEN j ELSE 0
    ELSE 0

\* One left-to-right pass over non-overlapping matches, as re.sub does.
RECURSIVE AnsiSub(_, _)
AnsiSub(s, i) ==
    IF i > Len(s) THEN <<>>
    ELSE LET e == AnsiMatchEnd(s, i)
         IN  IF e > 0 THEN AnsiSub(s, e + 1) ELSE <<s[i]>> \o AnsiSub(s, i + 1)

\* A remove_colorstr that only drops the two-character introducer.
RECURSIVE IntroducerSub(_, _)
IntroducerSub(s, i) ==
    IF i > Len(s) THEN <<>>
    ELSE IF i + 1 <= Len(s) /\ s[i] = ESC /\ s[i + 1] = LBRACKET
         THEN IntroducerSub(s, i + 2)
         ELSE <<s[i]>> \o IntroducerSub(s, i + 1)

remove_colorstr_introducer(input_string) == IntroducerSub(input_string, 1)

remove_colorstr(input_string) == AnsiSub(input_string, 1)

-----------------------------------------------------------------------------
(* remove_emoji: re.sub of [U+1F300-U+1FAFF U+2600-U+27BF U+1F1E6-U+1F1FF]+ *)

IsEmoji(c) ==
    \/ (c >= 127744 /\ c <= 129791)
    \/ (c >= 9728 /\ c <= 10175)
    \/ (c >= 127462 /\ c <= 127487)

remove_emoji(input_string) == SelectSeq(input_string, LAMBDA c : ~IsEmoji(c))

-----------------------------------------------------------------------------
(* _emojis *)

\* What sys.stdout.encoding can be when _emojis runs: a codec name, None
\* (then "utf-8" is used), a name no codec is registered for, or sys.stdout
\* itself is None so that the attribute access raises.
Encodings == {"utf-8", "ascii", "None", "unknown", "no-stdout"}

IsSurrogate(c) == c >= 55296 /\ c <= 57343

\* TRUE when s.encode(sys.stdout.encoding or "utf-8", errors="strict")
\* returns, FALSE when it raises.
EncodeSucceeds(s, e) ==
    CASE e \in {"utf-8", "None"} -> \A i \in 1..Len(s) : ~IsSurrogate(s[i])
      [] e = "ascii" -> \A i \in 1..Len(s) : s[i] < 128
      [] OTHER -> FALSE

\* str.replace(old, new) for a one-code-point old.
RECURSIVE Replace(_, _, _)
Replace(s, old, new) ==
    IF s = <<>> THEN <<>>
    ELSE (IF Head(s) = old THEN new ELSE <<Head(s)>>) \o Replace(Tail(s), old, new)

\* An _emojis whose fallback chain lacks the last replacement.
emojis_short_chain(s, e) ==
    IF EncodeSucceeds(s, e) THEN s
    ELSE Replace(Replace(Replace(Replace(Replace(s,
            GLYPH_DEBUG, L_DEBUG),
            GLYPH_INFO, L_INFO),
            GLYPH_SUCCESS, L_SUCCESS),
            GLYPH_WARNING, L_WARNING),
            GLYPH_ERROR, L_ERROR)

_emojis(s, e) ==
    IF EncodeSucceeds(s, e) THEN s
    ELSE Replace(Replace(Replace(Replace(Replace(Replace(s,
            GLYPH_DEBUG, L_DEBUG),
            GLYPH_INFO, L_INFO),
            GLYPH_SUCCESS, L_SUCCESS),
            GLYPH_WARNING, L_WARNING),
            GLYPH_ERROR, L_ERROR),
            GLYPH_CRITICAL, L_CRITICAL)

-----------------------------------------------------------------------------
(* Bounds and input sets of the codec specifications *)

MaxLen == 3         \* longest text passed to colorstr
MaxStyles == 2      \* most style names passed to colorstr
MaxEmojiLen == 2    \* longest text passed to _emojis
MaxStripLen == 6    \* longest text passed to the two strip functions
MaxOps == 2         \* most codec calls chained on one text

Texts(chars, n) == UNION {[1..k -> chars] : k \in 0..n}

ColorChars == {ESC, LBRACKET, DIGIT0, QUESTION, LOWER_M, SPACE}
StyleInputs == {"red", "bright_white", "bold", "underline", "end"}
StyleSeqs == UNION {[1..k -> StyleInputs] : k \in 0..MaxStyles}
\* U+00E9 encodes in UTF-8 but not in ASCII; U+D83D is a lone surrogate,
\* which no strict encoder accepts.
EmojiChars ==
    {GLYPH_DEBUG, GLYPH_INFO, GLYPH_SUCCESS, GLYPH_WARNING, GLYPH_ERROR,
     GLYPH_CRITICAL, GLYPH_CHECK, LOWER_A, 233, 55357}
StripChars == {ESC, LBRACKET, LOWER_M, GLYPH_SUCCESS}

\* The values the formatter and registry variables keep while only the
\* codec functions run.
NoRecord == [levelno |-> 0]
NoConfig == [use_color |-> FALSE, use_emoji |-> FALSE, show_time |-> FALSE]
FmtIdle == rec = NoRecord /\ cfg = NoConfig /\ raised = FALSE
RegIdle ==
    /\ loggers = <<>>
    /\ sysStdout = "stdout0"
    /\ env = [NO_COLOR |-> FALSE, NO_EMOJI |-> FALSE, NO_TIME |-> FALSE]
    /\ calls = <<>>
    /\ pc = <<>>
    /\ frame = <<>>

CodecInit(chars, n) ==
    /\ text \in Texts(chars, n)
    /\ styles = <<>>
    /\ enc = "utf-8"
    /\ out = text
    /\ prev = text
    /\ ops = <<>>
    /\ FmtIdle
    /\ RegIdle

\* out = colorstr(*styles, out)
ApplyColorstr ==
    /\ ops = <<>>
    /\ \E a \in StyleSeqs :
          /\ styles' = a
          /\ out' = colorstr(a, out)
    /\ prev' = out
    /\ ops' = Append(ops, "colorstr")
    /\ UNCHANGED <<text, enc, fmtVars, regVars>>

\* out = remove_colorstr(out)
ApplyRemoveColorstr ==
    /\ Len(ops) < MaxOps
    /\ out' = remove_colorstr(out)
    /\ prev' = out
    /\ ops' = Append(ops, "remove_colorstr")
    /\ UNCHANGED <<text, styles, enc, fmtVars, regVars>>

\* out = remove_emoji(out)
ApplyRemoveEmoji ==
    /\ Len(ops) < MaxOps
    /\ out' = remove_emoji(out)
    /\ prev' = out
    /\ ops' = Append(ops, "remove_emoji")
    /\ UNCHANGED <<text, styles, enc, fmtVars, regVars>>

\* out = _emojis(out), with sys.stdout in any of its possible states
ApplyEmojis ==
    /\ Len(ops) < MaxOps
    /\ \E e \in Encodings :
          /\ enc' = e
          /\ out' = _emojis(out, e)
    /\ prev' = out
    /\ ops' = Append(ops, "_emojis")
    /\ UNCHANGED <<text, styles, fmtVars, regVars>>

InitColor == CodecInit(ColorChars, MaxLen)
NextColor == ApplyColorstr \/ ApplyRemoveColorstr
SpecColor == InitColor /\ [][NextColor]_vars

InitStrip == CodecInit(StripChars, MaxStripLen)
NextStrip == ApplyRemoveColorstr \/ ApplyRemoveEmoji
SpecStrip == InitStrip /\ [][NextStrip]_vars

InitEmoji == CodecInit(EmojiChars, MaxEmojiLen)
NextEmoji == ApplyEmojis
SpecEmoji == InitEmoji /\ [][NextEmoji]_vars

-----------------------------------------------------------------------------
(* Vocabulary of the codec claims *)

IsCsiParam(c) == c >= 48 /\ c <= 63

\* s holds a CSI escape sequence: ESC, '[', any parameter bytes (0x30-0x3F,
\* so digits, ';' and also '?'), then a final letter.
HasCSI(s) ==
    \E i \in 1..Len(s) : \E j \in (i + 2)..Len(s) :
        /\ s[i] = ESC
        /\ s[i + 1] = LBRACKET
        /\ \A k \in (i + 2)..(j - 1) : IsCsiParam(s[k])
        /\ IsAsciiLetter(s[j])

LastTwo(o, name) ==
    Len(o) >= 2 /\ o[Len(o)] = name /\ o[Len(o) - 1] = name

\* C5: color stripping and emoji stripping are each idempotent: applying
\* remove_colorstr (remove_emoji) to its own result changes nothing.
C5_StripIdempotent ==
    /\ LastTwo(ops, "remove_colorstr") => out = prev
    /\ LastTwo(ops, "remove_emoji") => out = prev

\* The label a known severity glyph stands for; any other character is itself.
GlyphLabel(c) ==
    CASE c = GLYPH_DEBUG -> L_DEBUG
      [] c = GLYPH_INFO -> L_INFO
      [] c = GLYPH_SUCCESS -> L_SUCCESS
      [] c = GLYPH_WARNING -> L_WARNING
      [] c = GLYPH_ERROR -> L_ERROR
      [] c = GLYPH_CRITICAL -> L_CRITICAL
      [] OTHER -> <<c>>

RECURSIVE Labelled(_)
Labelled(s) ==
    IF s = <<>> THEN <<>> ELSE GlyphLabel(Head(s)) \o Labelled(Tail(s))

\* C9: _emojis(s) is s when s encodes in the output encoding; when it does
\* not, or the probe itself fails, it is s with each of the six severity
\* glyphs replaced by its label and every other character kept; the call
\* always returns.
C9_EmojisFallback ==
    ops # <<>> /\ ops[Len(ops)] = "_emojis" =>
        out = IF EncodeSucceeds(prev, enc) THEN prev ELSE Labelled(prev)

C9_Witness ==
    /\ ops = <<"_emojis">>
    /\ enc = "no-stdout"
    /\ text = <<GLYPH_CRITICAL, GLYPH_CHECK>>
    /\ out = L_CRITICAL \o <<GLYPH_CHECK>>

\* The part of o from position a to position b.
Slice(o, a, b) == [i \in 1..(b - a + 1) |-> o[a + i - 1]]

RECURSIVE CodesAt(_, _, _)
\* o holds the codes of the style names st, in order, from position p on;
\* the value is the position after them, 0 if they are not there.
CodesAt(o, st, p) ==
    IF st = <<>> THEN p
    ELSE LET c == colors[Head(st)]
         IN  IF p + Len(c) - 1 <= Len(o) /\ Slice(o, p, p + Len(c) - 1) = c
             THEN CodesAt(o, Tail(st), p + Len(c))
             ELSE 0

\* C10: for x free of escape sequences and a non-empty sequence of style
\* names, colorstr gives the style codes in the given order, then x, then
\* one reset sequence, and remove_colorstr of that is x again.
C10_DecorateStripIdentity ==
    /\ ops # <<>> /\ ops[1] = "colorstr" /\ Len(ops) = 1 /\ styles # <<>> =>
          LET p == CodesAt(out, styles, 1)
          IN  /\ p > 0
              /\ Len(out) = p - 1 + Len(text) + 4
              /\ Slice(out, p, p + Len(text) - 1) = text
              /\ Slice(out, p + Len(text), Len(out))
                    = <<ESC, LBRACKET, DIGIT0, LOWER_M>>
    /\ ops = <<"colorstr", "remove_colorstr">> /\ styles # <<>>
            /\ ~HasCSI(text) =>
          out = text

C10_Witness ==
    /\ ops = <<"colorstr", "remove_colorstr">>
    /\ styles = <<"red", "bold">>
    /\ text = <<ESC, LBRACKET, DIGIT0>>
    /\ prev = Sgr(31) \o Sgr(1) \o text \o Sgr(0)
    /\ out = text

-----------------------------------------------------------------------------
(* PrettyFormatter *)

DEBUG == 10
INFO == 20
SUCCESS == 25
WARNING == 30
ERROR == 40
CRITICAL == 50

KnownLevels == {DEBUG, INFO, SUCCESS, WARNING, ERROR, CRITICAL}

\* PrettyFormatter.LEVEL_STYLE: level -> (label, color, emoji)
LEVEL_STYLE ==
    [l \in KnownLevels |->
        CASE l = DEBUG -> [label |-> L_DEBUG, color |-> "cyan", emoji |-> <<GLYPH_DEBUG>>]
          [] l = INFO -> [label |-> L_INFO, color |-> "blue", emoji |-> <<GLYPH_INFO>>]
          [] l = SUCCESS -> [label |-> L_SUCCESS, color |-> "green", emoji |-> <<GLYPH_SUCCESS>>]
          [] l = WARNING -> [label |-> L_WARNING, color |-> "yellow", emoji |-> <<GLYPH_WARNING>>]
          [] l = ERROR -> [label |-> L_ERROR, color |-> "red", emoji |-> <<GLYPH_ERROR>>]
          [] l = CRITICAL -> [label |-> L_CRITICAL, color |-> "magenta", emoji |-> <<GLYPH_CRITICAL>>]]

\* LEVEL_STYLE.get(record.levelno, (record.levelname, None, "")); the
\* color None is written "".
StyleOf(r) ==
    IF r.levelno \in KnownLevels THEN LEVEL_STYLE[r.levelno]
    ELSE [label |-> r.levelname, color |-> "", emoji |-> <<>>]

\* n in decimal, zero-padded to w digits.
RECURSIVE Digits(_, _)
Digits(n, w) ==
    IF w = 0 THEN <<>> ELSE Digits(n \div 10, w - 1) \o <<DIGIT0 + (n % 10)>>

\* A formatTime whose date format does not pad the fields.
RECURSIVE Decimal(_)
Decimal(n) ==
    IF n < 10 THEN <<DIGIT0 + n>> ELSE Decimal(n \div 10) \o <<DIGIT0 + (n % 10)>>

formatTime_unpadded(created) ==
    Decimal(created[1]) \o <<HYPHEN>> \o Decimal(created[2]) \o <<HYPHEN>>
        \o Decimal(created[3]) \o <<SPACE>> \o Decimal(created[4])
        \o <<COLON>> \o Decimal(created[5]) \o <<COLON>>
        \o Decimal(created[6])

\* self.formatTime(record, "%Y-%m-%d %H:%M:%S")
formatTime(created) ==
    Digits(created[1], 4) \o <<HYPHEN>> \o Digits(created[2], 2) \o <<HYPHEN>>
        \o Digits(created[3], 2) \o <<SPACE>> \o Digits(created[4], 2)
        \o <<COLON>> \o Digits(created[5], 2) \o <<COLON>>
        \o Digits(created[6], 2)

\* " ".join(p for p in parts if p)
RECURSIVE JoinParts(_)
JoinParts(parts) ==
    IF parts = <<>> THEN <<>>
    ELSE LET rest == JoinParts(Tail(parts))
         IN  IF Head(parts) = <<>> THEN rest
             ELSE IF rest = <<>> THEN Head(parts)
                  ELSE Head(parts) \o <<SPACE>> \o rest

\* logging.Formatter.format with fmt "%(message)s", as line 273 calls it:
\* the message, then a newline (unless the text ends in one) and the
\* exception text, which is rendered by formatException and cached in
\* record.exc_text when the record has none yet.  formatException is not
\* guarded here: when it raises, so does the call.
SuperFormat(r) ==
    LET render == r.exc /\ r.exc_text = <<>>
    IN  IF render /\ ~r.renders
        THEN [raised |-> TRUE, s |-> <<>>, exc_text |-> r.exc_text]
        ELSE LET et == IF render THEN r.trace ELSE r.exc_text
                 m == r.message
                 s == IF et = <<>> THEN m
                      ELSE (IF m # <<>> /\ m[Len(m)] = NEWLINE
                            THEN m ELSE m \o <<NEWLINE>>) \o et
             IN  [raised |-> FALSE, s |-> s, exc_text |-> et]

\* Lines 275-279: the trace is appended under try/except.
WithTrace(r, msg) ==
    IF r.exc /\ r.renders THEN msg \o <<NEWLINE>> \o r.trace ELSE msg

\* Lines 281-310, given msg.
Decorate(r, c, e, msg) ==
    LET st == StyleOf(r)
        colored == c.use_color /\ st.color # ""
        tag0 == IF colored THEN colorstr(<<"bold", st.color>>, st.label)
                ELSE st.label
        level_tag == IF c.use_emoji /\ st.emoji # <<>>
                     THEN tag0 \o <<SPACE>> \o st.emoji ELSE tag0
        ts_txt == formatTime(r.created)
        parts == (IF c.show_time
                  THEN <<IF colored THEN colorstr(<<st.color, "bold">>, ts_txt)
                         ELSE ts_txt>>
                  ELSE <<>>) \o <<level_tag, msg>>
        joined == JoinParts(parts)
        decolored == IF ~c.use_color THEN remove_colorstr(joined) ELSE joined
        plain == IF ~c.use_emoji THEN remove_emoji(decolored) ELSE decolored
    IN  _emojis(plain, e)

\* PrettyFormatter.format(record) of a formatter with flags c, while
\* sys.stdout is in state e: whether the call raised, the line it returned
\* and record.exc_text as the call leaves it.
format(r, c, e) ==
    LET base == SuperFormat(r)
    IN  IF base.raised THEN [raised |-> TRUE, line |-> <<>>, exc_text |-> base.exc_text]
        ELSE [raised |-> FALSE,
              line |-> Decorate(r, c, e, WithTrace(r, base.s)),
              exc_text |-> base.exc_text]

-----------------------------------------------------------------------------
(* Formatting specification: one record, formatted by each handler in turn *)

MaxMsgLen == 1      \* longest message drawn freely from MsgChars
MaxFormats == 2     \* most format calls on one record (one per handler)

L_LEVEL5 == <<76, 101, 118, 101, 108, 32, 53>>              \* "Level 5"
M_MESSAGE == <<77, 101, 115, 115, 97, 103, 101>>            \* "Message"
M_DEBUG == <<68, 101, 98, 117, 103, 32, 109, 101, 115, 115, 97, 103, 101>>
T_TRACE == <<98, 111, 111, 109>>                            \* "boom"

MsgChars == {ESC, LBRACKET, LOWER_M, GLYPH_SUCCESS, NEWLINE, LOWER_A}
Messages ==
    Texts(MsgChars, MaxMsgLen)
        \cup {M_MESSAGE, M_DEBUG,
              <<ESC, LBRACKET, QUESTION, LOWER_M>>,
              Sgr(31) \o <<LOWER_A>> \o Sgr(0),
              <<ESC, ESC, LBRACKET, LOWER_M, LBRACKET, LOWER_M>>}
Levels == KnownLevels \cup {5}
Timestamps == {<<2025, 10, 6, 14, 32, 15>>, <<2026, 1, 2, 3, 4, 5>>}
Configs == [use_color : BOOLEAN, use_emoji : BOOLEAN, show_time : BOOLEAN]
FmtEncodings == {"utf-8", "ascii", "no-stdout"}

\* A record as Logger.makeRecord leaves it: exc says whether exc_info is
\* set, trace is what formatException gives for it, renders is FALSE when
\* formatException raises for it, exc_text (the cache) is still empty.
Records ==
    {[levelno |-> l,
      levelname |-> IF l \in KnownLevels THEN LEVEL_STYLE[l].label ELSE L_LEVEL5,
      message |-> m, created |-> t,
      exc |-> x[1], renders |-> x[2], trace |-> IF x[1] THEN T_TRACE ELSE <<>>,
      exc_text |-> <<>>] :
        l \in Levels, m \in Messages, t \in Timestamps,
        x \in {<<FALSE, TRUE>>, <<TRUE, TRUE>>, <<TRUE, FALSE>>}}

InitFormat ==
    /\ rec \in Records
    /\ cfg = NoConfig
    /\ raised = FALSE
    /\ enc = "utf-8"
    /\ out = <<>>
    /\ ops = <<>>
    /\ text = <<>>
    /\ styles = <<>>
    /\ prev = <<>>
    /\ RegIdle

Formatted == ops # <<>> /\ ops[Len(ops)] = "format"

\* A handler's formatter formats the record.
Format ==
    /\ Len(ops) < MaxFormats
    /\ ~Formatted
    /\ \E c \in Configs, e \in FmtEncodings :
          \E res \in {format(rec, c, e)} :
              /\ cfg' = c
              /\ enc' = e
              /\ raised' = res.raised
              /\ out' = res.line
              /\ rec' = [rec EXCEPT !.exc_text = res.exc_text]
    /\ ops' = Append(ops, "format")
    /\ UNCHANGED <<text, styles, prev, regVars>>

\* The handler writes the line (or reports the error) and the logger
\* passes the same record object on to its next handler.
Emit ==
    /\ Formatted
    /\ ops' = [ops EXCEPT ![Len(ops)] = "emit"]
    /\ out' = <<>>
    /\ cfg' = NoConfig
    /\ enc' = "utf-8"
    /\ raised' = FALSE
    /\ UNCHANGED <<rec, text, styles, prev, regVars>>

NextFormat == Format \/ Emit
SpecFormat == InitFormat /\ [][NextFormat]_vars

-----------------------------------------------------------------------------
(* Claims about PrettyFormatter.format *)

\* C4: a line returned by a formatter with use_color = False holds no CSI
\* escape sequence, whatever the record's message holds.
C4_NoEscapeWithoutColor ==
    Formatted /\ ~raised /\ ~cfg.use_color => ~HasCSI(out)

\* "2025-10-06 14:32:15"
TS_C6 == <<50, 48, 50, 53, 45, 49, 48, 45, 48, 54, 32, 49, 52, 58, 51, 50, 58, 49, 53>>

\* The SUCCESS record of C6 and a formatter with every decoration on.
IsC6Case ==
    /\ Formatted
    /\ rec.levelno = SUCCESS
    /\ rec.message = M_MESSAGE
    /\ rec.created = <<2025, 10, 6, 14, 32, 15>>
    /\ ~rec.exc
    /\ cfg = [use_color |-> TRUE, use_emoji |-> TRUE, show_time |-> TRUE]

\* colored timestamp, space, colored bold label, space, <mark>, space, message
C6_Line(mark) ==
    Sgr(32) \o Sgr(1) \o TS_C6 \o Sgr(0) \o <<SPACE>>
        \o Sgr(1) \o Sgr(32) \o L_SUCCESS \o Sgr(0) \o <<SPACE>>
        \o mark \o <<SPACE>> \o M_MESSAGE

C6_Stripped == remove_emoji(remove_colorstr(out))

\* C6 as claimed: the line is colored timestamp, colored bold SUCCESS, the
\* SUCCESS glyph and the message, single-spaced, and stripping color and
\* emoji from it leaves "2025-10-06 14:32:15 SUCCESS Message".
C6_AsClaimed ==
    IsC6Case =>
        /\ ~raised
        /\ out = C6_Line(<<GLYPH_SUCCESS>>)
        /\ C6_Stripped = TS_C6 \o <<SPACE>> \o L_SUCCESS \o <<SPACE>> \o M_MESSAGE

\* C6 as amended: when stdout's encoding takes the line, it is as claimed,
\* but stripping leaves both spaces that surrounded the glyph, so one more
\* space than the line formatted with color and emoji off; when the
\* encoding does not take it, the glyph is already replaced by the text
\* SUCCESS, which stripping keeps.
C6_StripKeepsGlyphSpaces ==
    IsC6Case =>
        /\ ~raised
        /\ format(rec, [use_color |-> FALSE, use_emoji |-> FALSE,
                        show_time |-> TRUE], enc).line
              = TS_C6 \o <<SPACE>> \o L_SUCCESS \o <<SPACE>> \o M_MESSAGE
        /\ IF EncodeSucceeds(C6_Line(<<GLYPH_SUCCESS>>), enc)
           THEN /\ out = C6_Line(<<GLYPH_SUCCESS>>)
                /\ C6_Stripped = TS_C6 \o <<SPACE>> \o L_SUCCESS
                                    \o <<SPACE, SPACE>> \o M_MESSAGE
           ELSE /\ out = C6_Line(L_SUCCESS)
                /\ C6_Stripped = TS_C6 \o <<SPACE>> \o L_SUCCESS \o <<SPACE>>
                                    \o L_SUCCESS \o <<SPACE>> \o M_MESSAGE

C6_Witness ==
    /\ IsC6Case
    /\ enc = "utf-8"
    /\ out = C6_Line(<<GLYPH_SUCCESS>>)

HasGlyph(s) == \E i \in 1..Len(s) : IsEmoji(s[i])

\* C7: with color and emoji off, a record of known severity whose message
\* holds no escape sequence and no glyph is formatted as the timestamp and
\* a space (if show_time), the label, a space, the message and, if the
\* record carries an exception, a newline and the trace, once.  (Checked
\* for the records that have a message part, and for the calls that return.)
C7_PlainLine ==
    /\ Formatted /\ ~raised
    /\ ~cfg.use_color /\ ~cfg.use_emoji
    /\ rec.levelno \in KnownLevels
    /\ rec.message # <<>> /\ ~HasCSI(rec.message) /\ ~HasGlyph(rec.message)
    => out = (IF cfg.show_time THEN formatTime(rec.created) \o <<SPACE>> ELSE <<>>)
                \o LEVEL_STYLE[rec.levelno].label \o <<SPACE>> \o rec.message
                \o (IF rec.exc THEN <<NEWLINE>> \o rec.trace ELSE <<>>)

\* C8: format never raises; when rendering the exception trace fails, the
\* line is the one the record gives without its exception.
C8_NeverRaises ==
    Formatted =>
        /\ ~raised
        /\ rec.exc /\ ~rec.renders =>
              out = format([rec EXCEPT !.exc = FALSE, !.trace = <<>>,
                                       !.exc_text = <<>>], cfg, enc).line

-----------------------------------------------------------------------------
(* set_logging *)

MaxCalls == 2       \* most set_logging calls after the import-time one

LOGGING_NAME == "automl"
Names == {LOGGING_NAME, "app"}
StdoutObjects == {"stdout0", "stdout1"}
NOTSET == 0

\* A path is its sequence of components, absolute when it starts at "/".
\* The empty path stands for a log_file that is None or "" (both falsy).
NoFile == <<>>
Cwd == <<"/", "cwd">>
LogFiles == {NoFile, <<"a.log">>, <<"/", "cwd", "a.log">>, <<"b.log">>}

\* os.path.abspath, for a process whose working directory is Cwd.
abspath(p) == IF p # <<>> /\ p[1] = "/" THEN p ELSE Cwd \o p

\* The level of a call: logging.DEBUG if verbose else logging.INFO.
LevelOf(verbose) == IF verbose THEN DEBUG ELSE INFO

\* The console formatter a call builds from the environment flags.
ConsoleFmt(e) ==
    [use_color |-> ~e.NO_COLOR, use_emoji |-> ~e.NO_EMOJI, show_time |-> ~e.NO_TIME]

\* The formatter a call builds for a new file handler.
FileFmt(e) ==
    [use_color |-> FALSE, use_emoji |-> FALSE, show_time |-> ~e.NO_TIME]

\* logging.getLogger(name) of a name never configured.
FreshLogger == [level |-> NOTSET, propagate |-> TRUE, handlers |-> <<>>]

\* isinstance(h, logging.StreamHandler): FileHandler is a subclass.
IsStreamHandler(h) == h.cls \in {"StreamHandler", "FileHandler"}

\* isinstance(h, StreamHandler) and getattr(h, "stream", None) is sys.stdout
IsConsole(h, so) == IsStreamHandler(h) /\ h.stream = so

\* isinstance(h, FileHandler) and h.baseFilename == os.path.abspath(log_file)
IsFileFor(h, log_file) ==
    h.cls = "FileHandler" /\ h.baseFilename = abspath(log_file)

\* Lines 400-404: the any(...) over logger.handlers.
HasConsole(hs, so) == \E i \in 1..Len(hs) : IsConsole(hs[i], so)

\* Lines 405-416, given what the any(...) answered.
ApplyConsole(hs, found, level, so, e) ==
    IF ~found
    THEN Append(hs, [cls |-> "StreamHandler", stream |-> so,
                     baseFilename |-> NoFile, level |-> level,
                     formatter |-> ConsoleFmt(e)])
    ELSE [i \in 1..Len(hs) |->
            IF IsConsole(hs[i], so)
            THEN [hs[i] EXCEPT !.level = level, !.formatter = ConsoleFmt(e)]
            ELSE hs[i]]

\* A file check that compares baseFilename with log_file as given.
NeedsFile_raw(hs, log_file) ==
    /\ log_file # NoFile
    /\ ~\E i \in 1..Len(hs) :
          hs[i].cls = "FileHandler" /\ hs[i].baseFilename = log_file

\* Lines 419-423: log_file and not any(...).
NeedsFile(hs, log_file) ==
    /\ log_file # NoFile
    /\ ~\E i \in 1..Len(hs) : IsFileFor(hs[i], log_file)

\* Lines 424-433, given what the condition answered.  The stream of a
\* FileHandler is the file it opened, never sys.stdout.
ApplyFile(hs, needed, level, log_file, e) ==
    IF needed
    THEN Append(hs, [cls |-> "FileHandler", stream |-> "file",
                     baseFilename |-> abspath(log_file), level |-> level,
                     formatter |-> FileFmt(e)])
    ELSE hs

\* Lines 389-391 on a logger.
Configure(lg, level) == [lg EXCEPT !.level = level, !.propagate = FALSE]

\* The whole of set_logging on one logger, run without interruption.
set_logging(lg, verbose, log_file, so, e) ==
    LET level == LevelOf(verbose)
        hs1 == ApplyConsole(lg.handlers, HasConsole(lg.handlers, so), level, so, e)
        hs2 == ApplyFile(hs1, NeedsFile(hs1, log_file), level, log_file, e)
    IN  [Configure(lg, level) EXCEPT !.handlers = hs2]

\* What has been asked of a logger so far: how many calls, under which
\* sys.stdout objects, for which files, and the arguments of the latest.
NoCalls == [count |-> 0, stdouts |-> {}, files |-> {},
            last |-> [level |-> NOTSET, log_file |-> NoFile, stdout |-> "stdout0"]]

Noted(c, verbose, log_file, so) ==
    [count |-> c.count + 1,
     stdouts |-> c.stdouts \cup {so},
     files |-> c.files \cup (IF log_file = NoFile THEN {} ELSE {abspath(log_file)}),
     last |-> [level |-> LevelOf(verbose), log_file |-> log_file, stdout |-> so]]

TotalCalls == calls[LOGGING_NAME].count + calls["app"].count

Threads == {"t1", "t2"}
NoFrame == [name |-> LOGGING_NAME, verbose |-> TRUE, log_file |-> NoFile,
            found |-> FALSE]

\* The module has been imported: line 439 has run
\* set_logging(LOGGING_NAME, verbose=VERBOSE, log_file=LOG_FILE).
InitRegistry ==
    /\ env \in [NO_COLOR : BOOLEAN, NO_EMOJI : BOOLEAN, NO_TIME : BOOLEAN]
    /\ sysStdout = "stdout0"
    /\ \E VERBOSE \in BOOLEAN, LOG_FILE \in {NoFile, <<"a.log">>} :
          /\ loggers = [n \in Names |->
                          IF n = LOGGING_NAME
                          THEN set_logging(FreshLogger, VERBOSE, LOG_FILE, sysStdout, env)
                          ELSE FreshLogger]
          /\ calls = [n \in Names |->
                        IF n = LOGGING_NAME
                        THEN Noted(NoCalls, VERBOSE, LOG_FILE, sysStdout)
                        ELSE NoCalls]
    /\ pc = [t \in Threads |-> "idle"]
    /\ frame = [t \in Threads |-> NoFrame]
    /\ text = <<>> /\ styles = <<>> /\ enc = "utf-8" /\ out = <<>>
    /\ prev = <<>> /\ ops = <<>>
    /\ FmtIdle

\* One thread calls set_logging(name, verbose, log_file) and it returns.
SetLogging ==
    /\ TotalCalls <= MaxCalls
    /\ \E n \in Names, verbose \in BOOLEAN, log_file \in LogFiles :
          /\ loggers' = [loggers EXCEPT
                            ![n] = set_logging(@, verbose, log_file, sysStdout, env)]
          /\ calls' = [calls EXCEPT ![n] = Noted(@, verbose, log_file, sysStdout)]
    /\ UNCHANGED <<sysStdout, env, pc, frame, codecVars, enc, fmtVars>>

\* The application rebinds sys.stdout (a redirect, a test's capture).
ReplaceStdout ==
    /\ \E so \in StdoutObjects \ {sysStdout} : sysStdout' = so
    /\ UNCHANGED <<loggers, env, calls, pc, frame, codecVars, enc, fmtVars>>

NextRegistry == SetLogging \/ ReplaceStdout
SpecRegistry == InitRegistry /\ [][NextRegistry]_vars

-----------------------------------------------------------------------------
(* set_logging run by concurrent threads: nothing in it takes a lock, so a
   thread can be preempted between any two of its statements *)

\* Lines 379-398: the arguments are bound and the logger is configured.
Call(t) ==
    /\ pc[t] = "idle"
    /\ TotalCalls <= MaxCalls
    /\ \E n \in Names, verbose \in BOOLEAN, log_file \in LogFiles :
          /\ frame' = [frame EXCEPT ![t] = [name |-> n, verbose |-> verbose,
                                            log_file |-> log_file, found |-> FALSE]]
          /\ loggers' = [loggers EXCEPT ![n] = Configure(@, LevelOf(verbose))]
          /\ calls' = [calls EXCEPT ![n] = Noted(@, verbose, log_file, sysStdout)]
    /\ pc' = [pc EXCEPT ![t] = "console_check"]
    /\ UNCHANGED <<sysStdout, env, codecVars, enc, fmtVars>>

\* Lines 400-404: the condition of the console branch is evaluated.
ConsoleCheck(t) ==
    /\ pc[t] = "console_check"
    /\ frame' = [frame EXCEPT ![t].found =
                    HasConsole(loggers[frame[t].name].handlers, sysStdout)]
    /\ pc' = [pc EXCEPT ![t] = "console_apply"]
    /\ UNCHANGED <<loggers, sysStdout, env, calls, codecVars, enc, fmtVars>>

\* Lines 405-416: the branch chosen by the condition runs.
ConsoleApply(t) ==
    /\ pc[t] = "console_apply"
    /\ loggers' = [loggers EXCEPT ![frame[t].name].handlers =
                      ApplyConsole(@, frame[t].found, LevelOf(frame[t].verbose),
                                   sysStdout, env)]
    /\ pc' = [pc EXCEPT ![t] = "file_check"]
    /\ UNCHANGED <<frame, sysStdout, env, calls, codecVars, enc, fmtVars>>

\* Lines 419-423: the condition of the file branch is evaluated.
FileCheck(t) ==
    /\ pc[t] = "file_check"
    /\ frame' = [frame EXCEPT ![t].found =
                    NeedsFile(loggers[frame[t].name].handlers, frame[t].log_file)]
    /\ pc' = [pc EXCEPT ![t] = "file_apply"]
    /\ UNCHANGED <<loggers, sysStdout, env, calls, codecVars, enc, fmtVars>>

\* Lines 424-435: the file handler is added if the condition held; return.
FileApply(t) ==
    /\ pc[t] = "file_apply"
    /\ loggers' = [loggers EXCEPT ![frame[t].name].handlers =
                      ApplyFile(@, frame[t].found, LevelOf(frame[t].verbose),
                                frame[t].log_file, env)]
    /\ pc' = [pc EXCEPT ![t] = "idle"]
    /\ frame' = [frame EXCEPT ![t] = NoFrame]
    /\ UNCHANGED <<sysStdout, env, calls, codecVars, enc, fmtVars>>

NextThreads ==
    \E t \in Threads :
        Call(t) \/ ConsoleCheck(t) \/ ConsoleApply(t) \/ FileCheck(t) \/ FileApply(t)
SpecThreads == InitRegistry /\ [][NextThreads]_vars

-----------------------------------------------------------------------------
(* Claims about set_logging *)

ConsoleCount(hs, so) == Cardinality({i \in 1..Len(hs) : IsConsole(hs[i], so)})
FileCount(hs, path) == Cardinality({i \in 1..Len(hs) : IsFileFor(hs[i], path)})

\* C1: after the calls made so far for a logger, it holds exactly one
\* console handler for each sys.stdout a call ran under and exactly one
\* file handler for each path a call named, and no other handler.
C1_NoDuplicateHandlers ==
    \A n \in Names :
        calls[n].count >= 1 =>
            LET hs == loggers[n].handlers
            IN  /\ \A so \in calls[n].stdouts : ConsoleCount(hs, so) = 1
                /\ \A path \in calls[n].files : FileCount(hs, path) = 1
                /\ Len(hs) = Cardinality(calls[n].stdouts)
                                + Cardinality(calls[n].files)

C1_Witness ==
    /\ calls["app"].count >= 2
    /\ calls["app"].stdouts = {"stdout0"}
    /\ calls["app"].files = {<<"/", "cwd", "a.log">>}
    /\ Len(loggers["app"].handlers) = 2

AllReturned == \A t \in Threads : pc[t] = "idle"

\* C2: whatever the interleaving of concurrent set_logging calls, once they
\* have returned a logger holds at most one console handler per stdout and
\* at most one file handler per path.
C2_NoDuplicatesConcurrent ==
    AllReturned =>
        \A n \in Names :
            LET hs == loggers[n].handlers
            IN  /\ \A so \in StdoutObjects : ConsoleCount(hs, so) <= 1
                /\ \A path \in calls[n].files : FileCount(hs, path) <= 1

\* C3: after a call, the console handler and the file handler for the
\* call's path carry the level and the formatter of that call.
C3_HandlersUpdated ==
    \A n \in Names :
        calls[n].count >= 1 =>
            LET hs == loggers[n].handlers
                last == calls[n].last
            IN  \A i \in 1..Len(hs) :
                    /\ IsConsole(hs[i], last.stdout) =>
                          /\ hs[i].level = last.level
                          /\ hs[i].formatter = ConsoleFmt(env)
                    /\ last.log_file # NoFile /\ IsFileFor(hs[i], last.log_file) =>
                          /\ hs[i].level = last.level
                          /\ hs[i].formatter = FileFmt(env)

====
